---- MODULE Spec2Model ----
(***************************************************************************)
(* A model of src/git-source-provider.ts: getSource(settings), the helper  *)
(* getGitCommandManager and cleanup(repositoryPath).  getSource is one     *)
(* sequential async function; every awaited collaborator call is one step  *)
(* of the model, and every such call either returns or throws.  The calls  *)
(* made so far are recorded, in order, in `calls`.                         *)
(***************************************************************************)
EXTENDS Integers, Sequences, FiniteSets, TLC

\* ------------------------------------------------------------------ bounds
MaxDepth == 1
MaxSubs == 2
MaxPushes == 1

\* ------------------------------------------------------- values of inputs
\* Refs a caller may request: none, a branch the remote has, a tag.
RequestedRefs == {"", "feature", "v1"}
RequestedCommits == {"", "c1"}
FetchDepths == -1..MaxDepth
\* The branches the remote exposes; what remoteBranchExists answers from.
RemoteBranches == {"main", "feature"}
\* What a default-branch lookup may return.
DefaultBranches == {"main"}
\* The branch named by settings.submodulesRemoteBranch, "" when unset.
SubmoduleBranches == {"", "release"}

VARIABLES
  settings,      \* the IGitSourceSettings object (settings.ref is rewritten)
  input,         \* the settings as they were when getSource was called
  entry,         \* the function called, its repositoryPath and what was
                 \* at that path when it was called
  pathKind,      \* what is at repositoryPath: "none", "file" or "dir"
  gitDir,        \* whether <repositoryPath>/.git is a directory
  gitConfig,     \* whether <repositoryPath>/.git/config is a file
  isExisting,    \* the local isExisting
  git,           \* the local git: "unset", "git" or "none" (undefined)
  pc,            \* the statement getSource is about to execute
  err,           \* the exception in flight or thrown, "none" when there is none
  calls,         \* the collaborator calls made so far, in order
  localAuth,     \* credential configuration in the repository's local config
  globalAuth,    \* credential configuration in the global config
  subAuth,       \* credential configuration in the submodules' local config
  remoteTip,     \* the commit the requested ref points at on the remote
  fetchedTip,    \* the commit the local copy of the ref points at (0: none)
  workTip,       \* the commit that is checked out (0: none)
  pushes,        \* how many times the remote ref has been moved
  checkoutInfo,  \* the local checkoutInfo
  subs,          \* submodulesList, as the number of submodules listed
  subIdx,        \* the index of sub in the for loop
  subGit         \* the local subGit: "unset", "git" or "none"

fsVars == <<pathKind, gitDir, gitConfig>>
authVars == <<localAuth, globalAuth, subAuth>>
repoVars == <<remoteTip, fetchedTip, workTip, pushes>>
loopVars == <<subs, subIdx, subGit>>
vars == <<settings, input, entry, pathKind, gitDir, gitConfig,
          isExisting, git, pc, err, calls,
          localAuth, globalAuth, subAuth, remoteTip, fetchedTip, workTip,
          pushes, checkoutInfo, subs, subIdx, subGit>>

\* ------------------------------------------------------------ call records
\* who: 0 for the top-level client and the helpers, i for submodule i's client.
\* ok: whether the statement completed without throwing in getSource.
\* ret: the boolean a call returned (TRUE when it returns none); for
\*      createCommandManager, whether the client was constructed.
\* depth: {} when no depth is passed, {d} when depth d is passed.
\* tip: the commit a fetch brought or a checkout checked out, 0 otherwise.
Rec(op, ok) ==
  [op |-> op, ok |-> ok, who |-> 0, ret |-> TRUE, ref |-> "", commit |-> "",
   spec |-> "", depth |-> {}, tip |-> 0]

NoCheckoutInfo == [ref |-> "", startPoint |-> ""]

Ops(seq) == {seq[i].op : i \in 1..Len(seq)}
Idx(seq, op) == {i \in 1..Len(seq) : seq[i].op = op}
TopIdx(seq, op) == {i \in 1..Len(seq) : seq[i].op = op /\ seq[i].who = 0}

\* ------------------------------------------------- the shape of getSource
\* The statements of the inner try block (lines 173-237).
SubmoduleTry ==
  {"configureGlobalAuth", "submoduleSync", "submoduleUpdate",
   "submoduleForeach", "configureSubmoduleAuth", "getSubmodulesList",
   "subGetGit", "subRemoteBranchExists", "subLfsInstall", "subFetch",
   "subGetCheckoutInfo", "subLfsFetch", "subCheckout"}

\* The statements of the outer try block (lines 100-258), the inner finally
\* (line 240) included.
AuthTry ==
  SubmoduleTry \cup
  {"configureAuth", "remoteBranchExists", "getDefaultBranch", "lfsInstall",
   "fetch", "testRef", "fetch2", "getCheckoutInfo", "lfsFetch", "checkout",
   "removeGlobalAuth", "log1", "log1Sha", "checkCommitInfo"}

\* The outer finally (lines 259-266): removeAuth unless persistCredentials.
FinallyAuth(s) == IF s.persistCredentials THEN "done" ELSE "removeAuth"

\* OnThrow without the inner finally: a throw in the submodule block goes
\* straight to the outer finally.
OnThrowNoInnerFinally(p, s) ==
  IF p \in AuthTry THEN FinallyAuth(s) ELSE "done"

\* OnThrow with removeAuth on the normal path only: a throw in the outer try
\* block leaves getSource at once.
OnThrowNoOuterFinally(p, s) ==
  IF p \in SubmoduleTry THEN "removeGlobalAuth" ELSE "done"

\* OnThrow with configureGlobalAuth in front of the inner try block: when
\* it throws, the inner finally is not run.
OnThrowGlobalAuthOutsideTry(p, s) ==
  IF p \in SubmoduleTry \ {"configureGlobalAuth"} THEN "removeGlobalAuth"
  ELSE IF p \in AuthTry THEN FinallyAuth(s)
  ELSE "done"

\* OnThrow with a failed fetch logged and passed over.
OnThrowFetchIgnored(p, s) ==
  IF p = "fetch2" THEN "getCheckoutInfo"
  ELSE IF p \in SubmoduleTry THEN "removeGlobalAuth"
  ELSE IF p \in AuthTry THEN FinallyAuth(s)
  ELSE "done"

\* Where control goes when the statement at p throws.
OnThrow(p, s) ==
  IF p \in SubmoduleTry THEN "removeGlobalAuth"
  ELSE IF p \in AuthTry THEN FinallyAuth(s)
  ELSE "done"

\* Lines 23-32: the first statement that makes a call.
FirstStep(kind) ==
  IF kind = "file" THEN "rmRF"
  ELSE IF kind = "none" THEN "mkdirP"
  ELSE "getGit"

\* getGitCommandManager without the lfs test of line 301.
GetGitCommandManagerNoLfsTest(constructed, lfs) ==
  IF constructed THEN "git" ELSE "none"

\* getGitCommandManager (lines 290-308): the client, undefined, or a throw.
GetGitCommandManager(constructed, lfs) ==
  IF constructed THEN "git"
  ELSE IF lfs THEN "throw"
  ELSE "none"

\* AfterGetGit without the test of isExisting.
AfterGetGitAlwaysPrepare(existing) == "prepare"

\* Lines 40 and 50: after the client is resolved.
AfterGetGit(existing) == IF existing THEN "prepare" ELSE "fallback"

\* FallbackError without the sshKey test of line 60.
FallbackErrorNoSshKeyTest(s) ==
  IF s.submodules THEN "submodulesNotSupported" ELSE "none"

\* Lines 56-64: the error the fallback path throws, "none" when it downloads.
FallbackError(s) ==
  IF s.submodules THEN "submodulesNotSupported"
  ELSE IF s.sshKey THEN "sshKeyNotSupported"
  ELSE "none"

\* The fallback branch without the return of line 74.
AfterDownloadNoReturn == "init"

\* Line 74: return after the download.
AfterDownload == "done"

\* Lines 81-83: init and remoteAdd only when there is no .git directory.
AfterSetState(hasGitDir) == IF hasGitDir THEN "gc" ELSE "init"

\* AfterResolve going to the fetch without the LFS install.
AfterResolveNoLfsInstall(s) == "fetch"

\* Line 122 on: LFS install, then the fetch.
AfterResolve(s) == IF s.lfs THEN "lfsInstall" ELSE "fetch"

\* Line 107, before remoteBranchExists is awaited: with an empty ref the
\* second disjunct is false without a call.
AfterConfigureAuth(s) ==
  IF s.ref = ""
  THEN (IF s.commit = "" THEN "getDefaultBranch" ELSE AfterResolve(s))
  ELSE "remoteBranchExists"

\* Line 107, once remoteBranchExists(settings.ref) has answered.
AfterRemoteBranchExists(s, exists) ==
  IF ~exists THEN "getDefaultBranch" ELSE AfterResolve(s)

\* DefaultBranchVia without the sshKey test of line 109.
DefaultBranchViaApiOnly(s) == "api"

\* Lines 109-117: who is asked for the default branch.
DefaultBranchVia(s) == IF s.sshKey THEN "git" ELSE "api"

\* Lines 110 and 112: the answer is assigned to settings.ref.
AssignDefaultBranch(s, branch) == [s EXCEPT !.ref = branch]

\* FullHistory with the comparison of line 128 off by one.
FullHistoryOffByOne(s) == s.fetchDepth <= 1

\* Line 128.
FullHistory(s) == s.fetchDepth <= 0

\* AfterTestRef with the test of line 138 inverted.
AfterTestRefInverted(matches) ==
  IF matches THEN "fetch2" ELSE "getCheckoutInfo"

\* Line 138.
AfterTestRef(matches) == IF ~matches THEN "fetch2" ELSE "getCheckoutInfo"

\* Line 160.
AfterGetCheckoutInfo(s) == IF s.lfs THEN "lfsFetch" ELSE "checkout"

\* AfterCheckout without the test of settings.submodules.
AfterCheckoutNoSubmodulesTest(s) == "configureGlobalAuth"

\* Line 172.
AfterCheckout(s) == IF s.submodules THEN "configureGlobalAuth" ELSE "log1"

\* Lines 193 and 200.
AfterPersist(s) ==
  IF s.submodulesRemoteBranch # "" THEN "getSubmodulesList"
  ELSE "removeGlobalAuth"

AfterSubmoduleForeach(s) ==
  IF s.persistCredentials \/ s.submodulesRemoteBranch # ""
  THEN "configureSubmoduleAuth"
  ELSE AfterPersist(s)

\* Line 204: the next iteration of the for loop, or its end.
LoopStep(i, n) == IF i < n THEN "subGetGit" ELSE "removeGlobalAuth"

\* Lines 218 and 223.
AfterSubLfsInstall(s) ==
  IF s.fetchDepth > 0 THEN "subFetch" ELSE "subGetCheckoutInfo"

\* AfterSubRemoteBranchExists leaving the loop at the first submodule
\* without the branch.
AfterSubRemoteBranchExistsBreak(s, exists, i, n) ==
  IF ~exists THEN "removeGlobalAuth"
  ELSE IF s.lfs THEN "subLfsInstall"
  ELSE AfterSubLfsInstall(s)

\* Lines 210-212.
AfterSubRemoteBranchExists(s, exists, i, n) ==
  IF ~exists THEN LoopStep(i, n)
  ELSE IF s.lfs THEN "subLfsInstall"
  ELSE AfterSubLfsInstall(s)

\* Line 229.
AfterSubGetCheckoutInfo(s) == IF s.lfs THEN "subLfsFetch" ELSE "subCheckout"

\* ---------------------------------------------------------- collaborators
\* refHelper.getCheckoutInfo: a commit is checked out directly; a remote
\* branch gets the remote's name as start point.
GetCheckoutInfo(ref, commit) ==
  IF commit # "" THEN [ref |-> commit, startPoint |-> ""]
  ELSE IF ref \in RemoteBranches \cup (SubmoduleBranches \ {""})
       THEN [ref |-> ref, startPoint |-> "origin"]
  ELSE [ref |-> ref, startPoint |-> ""]

\* git.remoteBranchExists.
RemoteBranchExists(ref) == ref \in RemoteBranches

\* refHelper.testRef: whether the local copy still matches the remote ref.
TestRef(localTip, tip) == localTip = tip

\* checkoutInfo.startPoint || checkoutInfo.ref (lines 162 and 230).
LfsFetchRef(info) == IF info.startPoint # "" THEN info.startPoint ELSE info.ref

\* ------------------------------------------------------------------- Init
Settings ==
  [ref : RequestedRefs, commit : RequestedCommits, fetchDepth : FetchDepths,
   lfs : BOOLEAN, submodules : BOOLEAN, sshKey : BOOLEAN,
   persistCredentials : BOOLEAN, submodulesRemoteBranch : SubmoduleBranches,
   nestedSubmodules : BOOLEAN]

\* The calls that run the per-submodule loop of lines 204-235.
Override(s) == s.submodules /\ s.submodulesRemoteBranch # ""

\* CleanupFirstStep without the test of the file .git/config.
CleanupFirstStepNoConfigTest(path, configExists) ==
  IF path = "" THEN "cleanupDone" ELSE "cleanupGit"

\* Lines 271-276 of cleanup: return at once with an empty path or without
\* the file <repositoryPath>/.git/config.
CleanupFirstStep(path, configExists) ==
  IF path = "" \/ ~configExists THEN "cleanupDone" ELSE "cleanupGit"

\* The settings of the runs of cleanup, which reads none of them.
NoSettings ==
  [ref |-> "", commit |-> "", fetchDepth |-> 0, lfs |-> FALSE,
   submodules |-> FALSE, sshKey |-> FALSE, persistCredentials |-> FALSE,
   submodulesRemoteBranch |-> "", nestedSubmodules |-> FALSE]

\* A call of getSource.  The loop over the submodules does not read the
\* directory, sshKey, ref or commit, so the calls that run it are taken on an
\* existing directory, with a branch requested and no SSH key; every other
\* call is taken with every combination of settings and directory.
InitGetSource ==
  /\ settings \in Settings
  /\ pathKind \in {"none", "file", "dir"}
  /\ gitDir \in (IF pathKind = "dir" THEN BOOLEAN ELSE {FALSE})
  /\ Override(settings) =>
       /\ pathKind = "dir" /\ gitDir
       /\ ~settings.sshKey
       /\ settings.ref = "feature" /\ settings.commit = ""
  /\ gitConfig = gitDir
  /\ entry = [fn |-> "getSource", repositoryPath |-> "repo",
              pathKind |-> pathKind]
  /\ pc = FirstStep(pathKind)
  /\ localAuth = FALSE

\* A call of cleanup(repositoryPath), on a directory that may hold the
\* credentials an earlier run left.
InitCleanup ==
  /\ settings = NoSettings
  /\ pathKind = "dir"
  /\ gitDir \in BOOLEAN
  /\ gitConfig \in (IF gitDir THEN BOOLEAN ELSE {FALSE})
  /\ localAuth \in BOOLEAN
  /\ \E path \in {"", "repo"} :
       entry = [fn |-> "cleanup", repositoryPath |-> path,
                pathKind |-> pathKind, gitDir |-> gitDir,
                gitConfig |-> gitConfig, localAuth |-> localAuth]
  /\ pc = CleanupFirstStep(entry.repositoryPath, gitConfig)

Init ==
  /\ InitGetSource \/ InitCleanup
  /\ input = settings
  /\ isExisting = TRUE
  /\ git = "unset"
  /\ err = "none"
  /\ calls = <<>>
  /\ globalAuth = FALSE /\ subAuth = FALSE
  /\ remoteTip = 1 /\ fetchedTip = 0 /\ workTip = 0 /\ pushes = 0
  /\ checkoutInfo = NoCheckoutInfo
  /\ subs = 0 /\ subIdx = 0 /\ subGit = "unset"

\* A call c is made and returns (ok) or throws.
Step(c, ok, next) ==
  /\ calls' = Append(calls, c)
  /\ pc' = IF ok THEN next ELSE OnThrow(pc, settings)
  /\ err' = IF ok THEN err ELSE c.op

\* ---------------------------------------------------- directory and client
\* Lines 23-25.
RmRF ==
  /\ pc = "rmRF"
  /\ \E ok \in BOOLEAN :
       /\ Step(Rec("rmRF", ok), ok, "mkdirP")
       /\ pathKind' = IF ok THEN "none" ELSE pathKind
  /\ UNCHANGED <<settings, input, entry, gitDir, gitConfig, isExisting, git,
                 authVars, repoVars, checkoutInfo, loopVars>>

\* Lines 28-32.
MkdirP ==
  /\ pc = "mkdirP"
  /\ isExisting' = FALSE
  /\ \E ok \in BOOLEAN :
       /\ Step(Rec("mkdirP", ok), ok, "getGit")
       /\ pathKind' = IF ok THEN "dir" ELSE pathKind
  /\ UNCHANGED <<settings, input, entry, gitDir, gitConfig, git, authVars,
                 repoVars, checkoutInfo, loopVars>>

\* Line 36.
GetGit ==
  /\ pc = "getGit"
  /\ \E constructed \in BOOLEAN :
       LET g == GetGitCommandManager(constructed, settings.lfs) IN
       /\ Step([Rec("createCommandManager", g # "throw") EXCEPT
                  !.ret = constructed],
               g # "throw", AfterGetGit(isExisting))
       /\ git' = IF g = "throw" THEN git ELSE g
  /\ UNCHANGED <<settings, input, entry, fsVars, isExisting, authVars, repoVars,
                 checkoutInfo, loopVars>>

\* Lines 40-48.  The helper may keep or remove the .git directory.
PrepareExistingDirectory ==
  /\ pc = "prepare"
  /\ \E ok \in BOOLEAN :
       Step([Rec("prepareExistingDirectory", ok) EXCEPT !.ref = settings.ref],
            ok, "fallback")
  /\ gitDir' \in {gitDir, FALSE}
  /\ gitConfig' = gitDir'
  /\ UNCHANGED <<settings, input, entry, pathKind, isExisting, git, authVars,
                 repoVars, checkoutInfo, loopVars>>

\* Lines 50-64 with no client, lines 78-83 with one.
CheckClient ==
  /\ pc = "fallback"
  /\ IF git = "none"
     THEN /\ err' = FallbackError(settings)
          /\ pc' = IF FallbackError(settings) # "none"
                   THEN OnThrow(pc, settings) ELSE "download"
          /\ calls' = calls
     ELSE /\ err' = err
          /\ pc' = AfterSetState(gitDir)
          /\ calls' = Append(calls, Rec("setRepositoryPath", TRUE))
  /\ UNCHANGED <<settings, input, entry, fsVars, isExisting, git, authVars, repoVars,
                 checkoutInfo, loopVars>>

\* Lines 66-74.
DownloadRepository ==
  /\ pc = "download"
  /\ \E ok \in BOOLEAN :
       Step([Rec("downloadRepository", ok) EXCEPT
               !.ref = settings.ref, !.commit = settings.commit],
            ok, AfterDownload)
  /\ UNCHANGED <<settings, input, entry, fsVars, isExisting, git, authVars, repoVars,
                 checkoutInfo, loopVars>>

\* --------------------------------------------------- repository and auth
\* Line 85.
GitInit ==
  /\ pc = "init"
  /\ \E ok \in BOOLEAN :
       /\ Step(Rec("init", ok), ok, "remoteAdd")
       /\ gitDir' = IF ok THEN TRUE ELSE gitDir
       /\ gitConfig' = gitDir'
  /\ UNCHANGED <<settings, input, entry, pathKind, isExisting, git, authVars,
                 repoVars, checkoutInfo, loopVars>>

\* Line 86.
RemoteAdd ==
  /\ pc = "remoteAdd"
  /\ \E ok \in BOOLEAN : Step(Rec("remoteAdd", ok), ok, "gc")
  /\ UNCHANGED <<settings, input, entry, fsVars, isExisting, git, authVars, repoVars,
                 checkoutInfo, loopVars>>

\* Lines 92-96: a false answer is a warning, not an error.
TryDisableAutomaticGarbageCollection ==
  /\ pc = "gc"
  /\ \E disabled \in BOOLEAN :
       Step([Rec("tryDisableAutomaticGarbageCollection", TRUE) EXCEPT
               !.ret = disabled],
            TRUE, "configureAuth")
  /\ UNCHANGED <<settings, input, entry, fsVars, isExisting, git, authVars, repoVars,
                 checkoutInfo, loopVars>>

\* Line 103.  A configureAuth that throws may have written part of it.
ConfigureAuth ==
  /\ pc = "configureAuth"
  /\ \E ok \in BOOLEAN :
       /\ Step(Rec("configureAuth", ok), ok, AfterConfigureAuth(settings))
       /\ localAuth' \in (IF ok THEN {TRUE} ELSE {localAuth, TRUE})
  /\ UNCHANGED <<settings, input, entry, fsVars, isExisting, git, globalAuth, subAuth,
                 repoVars, checkoutInfo, loopVars>>

\* Line 107: git.remoteBranchExists(settings.ref).
RemoteBranchExistsCall ==
  /\ pc = "remoteBranchExists"
  /\ \E ok \in BOOLEAN :
       LET exists == RemoteBranchExists(settings.ref) IN
       Step([Rec("remoteBranchExists", ok) EXCEPT
               !.ref = settings.ref, !.ret = exists],
            ok, AfterRemoteBranchExists(settings, exists))
  /\ UNCHANGED <<settings, input, entry, fsVars, isExisting, git, authVars, repoVars,
                 checkoutInfo, loopVars>>

\* Lines 109-117.
GetDefaultBranch ==
  /\ pc = "getDefaultBranch"
  /\ \E ok \in BOOLEAN, branch \in DefaultBranches :
       /\ Step([Rec("getDefaultBranch", ok) EXCEPT
                  !.spec = DefaultBranchVia(settings),
                  !.ref = IF ok THEN branch ELSE ""],
               ok, AfterResolve(settings))
       /\ settings' = IF ok THEN AssignDefaultBranch(settings, branch)
                      ELSE settings
  /\ UNCHANGED <<input, entry, fsVars, isExisting, git, authVars, repoVars,
                 checkoutInfo, loopVars>>

\* Line 123.
LfsInstall ==
  /\ pc = "lfsInstall"
  /\ \E ok \in BOOLEAN : Step(Rec("lfsInstall", ok), ok, "fetch")
  /\ UNCHANGED <<settings, input, entry, fsVars, isExisting, git, authVars, repoVars,
                 checkoutInfo, loopVars>>

\* ------------------------------------------------------------------ fetch
\* Lines 130-134 (all history, no depth) and 143-144 (one refspec, depth).
Fetch ==
  /\ pc = "fetch"
  /\ \E ok \in BOOLEAN :
       /\ Step([Rec("fetch", ok) EXCEPT
                  !.ref = settings.ref, !.commit = settings.commit,
                  !.spec = IF FullHistory(settings) THEN "all" ELSE "targeted",
                  !.depth = IF FullHistory(settings) THEN {}
                            ELSE {settings.fetchDepth},
                  !.tip = IF ok THEN remoteTip ELSE 0],
               ok,
               IF FullHistory(settings) THEN "testRef" ELSE "getCheckoutInfo")
       /\ fetchedTip' = IF ok THEN remoteTip ELSE fetchedTip
  /\ UNCHANGED <<settings, input, entry, fsVars, isExisting, git, authVars, remoteTip,
                 workTip, pushes, checkoutInfo, loopVars>>

\* Line 138.
TestRefCall ==
  /\ pc = "testRef"
  /\ \E ok \in BOOLEAN :
       LET matches == TestRef(fetchedTip, remoteTip) IN
       Step([Rec("testRef", ok) EXCEPT
               !.ref = settings.ref, !.commit = settings.commit,
               !.ret = matches],
            ok, AfterTestRef(matches))
  /\ UNCHANGED <<settings, input, entry, fsVars, isExisting, git, authVars, repoVars,
                 checkoutInfo, loopVars>>

\* Lines 139-140.
CorrectiveFetch ==
  /\ pc = "fetch2"
  /\ \E ok \in BOOLEAN :
       /\ Step([Rec("fetch", ok) EXCEPT
                  !.ref = settings.ref, !.commit = settings.commit,
                  !.spec = "targeted",
                  !.tip = IF ok THEN remoteTip ELSE 0],
               ok, "getCheckoutInfo")
       /\ fetchedTip' = IF ok THEN remoteTip ELSE fetchedTip
  /\ UNCHANGED <<settings, input, entry, fsVars, isExisting, git, authVars, remoteTip,
                 workTip, pushes, checkoutInfo, loopVars>>

\* The remote ref is moved (a push or a force push) between the first fetch
\* and the verification, or before the corrective fetch.  A push before the
\* first fetch is the same as another initial tip, and getSource does not
\* look at the remote ref again after its last fetch.
RemotePush ==
  /\ pc \in {"testRef", "fetch2"}
  /\ pushes < MaxPushes
  /\ pushes' = pushes + 1
  /\ remoteTip' = remoteTip + 1
  /\ UNCHANGED <<settings, input, entry, fsVars, isExisting, git, pc, err, calls,
                 authVars, fetchedTip, workTip, checkoutInfo, loopVars>>

\* --------------------------------------------------------------- checkout
\* Lines 150-154.
GetCheckoutInfoCall ==
  /\ pc = "getCheckoutInfo"
  /\ \E ok \in BOOLEAN :
       /\ Step([Rec("getCheckoutInfo", ok) EXCEPT
                  !.ref = settings.ref, !.commit = settings.commit],
               ok, AfterGetCheckoutInfo(settings))
       /\ checkoutInfo' = IF ok
                          THEN GetCheckoutInfo(settings.ref, settings.commit)
                          ELSE checkoutInfo
  /\ UNCHANGED <<settings, input, entry, fsVars, isExisting, git, authVars, repoVars,
                 loopVars>>

\* Line 162.
LfsFetch ==
  /\ pc = "lfsFetch"
  /\ \E ok \in BOOLEAN :
       Step([Rec("lfsFetch", ok) EXCEPT !.ref = LfsFetchRef(checkoutInfo)],
            ok, "checkout")
  /\ UNCHANGED <<settings, input, entry, fsVars, isExisting, git, authVars, repoVars,
                 checkoutInfo, loopVars>>

\* Line 168.
Checkout ==
  /\ pc = "checkout"
  /\ \E ok \in BOOLEAN :
       /\ Step([Rec("checkout", ok) EXCEPT
                  !.ref = checkoutInfo.ref, !.spec = checkoutInfo.startPoint,
                  !.tip = IF ok THEN fetchedTip ELSE 0],
               ok, AfterCheckout(settings))
       /\ workTip' = IF ok THEN fetchedTip ELSE workTip
  /\ UNCHANGED <<settings, input, entry, fsVars, isExisting, git, authVars, remoteTip,
                 fetchedTip, pushes, checkoutInfo, loopVars>>

\* ------------------------------------------------------------- submodules
\* Line 176.  A configureGlobalAuth that throws may have written part of it.
ConfigureGlobalAuth ==
  /\ pc = "configureGlobalAuth"
  /\ \E ok \in BOOLEAN :
       /\ Step(Rec("configureGlobalAuth", ok), ok, "submoduleSync")
       /\ globalAuth' \in (IF ok THEN {TRUE} ELSE {globalAuth, TRUE})
  /\ UNCHANGED <<settings, input, entry, fsVars, isExisting, git, localAuth, subAuth,
                 repoVars, checkoutInfo, loopVars>>

Recursive(s) == IF s.nestedSubmodules THEN "recursive" ELSE ""

\* Line 181.
SubmoduleSync ==
  /\ pc = "submoduleSync"
  /\ \E ok \in BOOLEAN :
       Step([Rec("submoduleSync", ok) EXCEPT !.spec = Recursive(settings)],
            ok, "submoduleUpdate")
  /\ UNCHANGED <<settings, input, entry, fsVars, isExisting, git, authVars, repoVars,
                 checkoutInfo, loopVars>>

\* Lines 182-185.
SubmoduleUpdate ==
  /\ pc = "submoduleUpdate"
  /\ \E ok \in BOOLEAN :
       Step([Rec("submoduleUpdate", ok) EXCEPT
               !.spec = Recursive(settings), !.depth = {settings.fetchDepth}],
            ok, "submoduleForeach")
  /\ UNCHANGED <<settings, input, entry, fsVars, isExisting, git, authVars, repoVars,
                 checkoutInfo, loopVars>>

\* Lines 186-189.
SubmoduleForeach ==
  /\ pc = "submoduleForeach"
  /\ \E ok \in BOOLEAN :
       Step([Rec("submoduleForeach", ok) EXCEPT !.spec = Recursive(settings)],
            ok, AfterSubmoduleForeach(settings))
  /\ UNCHANGED <<settings, input, entry, fsVars, isExisting, git, authVars, repoVars,
                 checkoutInfo, loopVars>>

\* Line 195.
ConfigureSubmoduleAuth ==
  /\ pc = "configureSubmoduleAuth"
  /\ \E ok \in BOOLEAN :
       /\ Step(Rec("configureSubmoduleAuth", ok), ok, AfterPersist(settings))
       /\ subAuth' \in (IF ok THEN {TRUE} ELSE {subAuth, TRUE})
  /\ UNCHANGED <<settings, input, entry, fsVars, isExisting, git, localAuth,
                 globalAuth, repoVars, checkoutInfo, loopVars>>

\* The loop variables when iteration i ends with `next` as the next statement.
EndIteration(ok, next) ==
  /\ subIdx' = IF ok /\ next = "subGetGit" THEN subIdx + 1 ELSE subIdx
  /\ subGit' = "unset"
  /\ subs' = subs

\* Line 203.
GetSubmodulesList ==
  /\ pc = "getSubmodulesList"
  /\ \E ok \in BOOLEAN, n \in 0..MaxSubs :
       /\ Step([Rec("getSubmodulesList", ok) EXCEPT
                  !.tip = IF ok THEN n ELSE 0],
               ok, LoopStep(0, n))
       /\ subs' = IF ok THEN n ELSE subs
       /\ subIdx' = IF ok /\ n > 0 THEN 1 ELSE subIdx
       /\ subGit' = subGit
  /\ UNCHANGED <<settings, input, entry, fsVars, isExisting, git, authVars, repoVars,
                 checkoutInfo>>

\* Lines 206-210: the client for submodule sub; with none the && at line 210
\* skips the submodule.
SubGetGit ==
  /\ pc = "subGetGit"
  /\ \E constructed \in BOOLEAN :
       LET g == GetGitCommandManager(constructed, settings.lfs)
           next == IF g = "git" THEN "subRemoteBranchExists"
                   ELSE LoopStep(subIdx, subs)
       IN
       /\ Step([Rec("createCommandManager", g # "throw") EXCEPT
                  !.who = subIdx, !.ret = constructed],
               g # "throw", next)
       /\ IF g = "git"
          THEN subGit' = "git" /\ UNCHANGED <<subs, subIdx>>
          ELSE EndIteration(g # "throw", next)
  /\ UNCHANGED <<settings, input, entry, fsVars, isExisting, git, authVars, repoVars,
                 checkoutInfo>>

\* Line 210: subGit.remoteBranchExists(settings.submodulesRemoteBranch).
SubRemoteBranchExists ==
  /\ pc = "subRemoteBranchExists"
  /\ \E ok \in BOOLEAN, exists \in BOOLEAN :
       LET next == AfterSubRemoteBranchExists(settings, exists, subIdx, subs)
       IN
       /\ Step([Rec("remoteBranchExists", ok) EXCEPT
                  !.who = subIdx, !.ref = settings.submodulesRemoteBranch,
                  !.ret = exists],
               ok, next)
       /\ IF ok /\ exists
          THEN UNCHANGED loopVars
          ELSE EndIteration(ok, next)
  /\ UNCHANGED <<settings, input, entry, fsVars, isExisting, git, authVars, repoVars,
                 checkoutInfo>>

\* Line 213.
SubLfsInstall ==
  /\ pc = "subLfsInstall"
  /\ \E ok \in BOOLEAN :
       Step([Rec("lfsInstall", ok) EXCEPT !.who = subIdx],
            ok, AfterSubLfsInstall(settings))
  /\ UNCHANGED <<settings, input, entry, fsVars, isExisting, git, authVars, repoVars,
                 checkoutInfo, loopVars>>

\* Lines 219-220.
SubFetch ==
  /\ pc = "subFetch"
  /\ \E ok \in BOOLEAN :
       Step([Rec("fetch", ok) EXCEPT
               !.who = subIdx, !.ref = settings.submodulesRemoteBranch,
               !.spec = "targeted", !.depth = {settings.fetchDepth}],
            ok, "subGetCheckoutInfo")
  /\ UNCHANGED <<settings, input, entry, fsVars, isExisting, git, authVars, repoVars,
                 checkoutInfo, loopVars>>

\* Lines 223-227.
SubGetCheckoutInfo ==
  /\ pc = "subGetCheckoutInfo"
  /\ \E ok \in BOOLEAN :
       Step([Rec("getCheckoutInfo", ok) EXCEPT
               !.who = subIdx, !.ref = settings.submodulesRemoteBranch],
            ok, AfterSubGetCheckoutInfo(settings))
  /\ UNCHANGED <<settings, input, entry, fsVars, isExisting, git, authVars, repoVars,
                 checkoutInfo, loopVars>>

\* The local subCheckoutInfo of lines 223-227.
SubCheckoutInfo == GetCheckoutInfo(settings.submodulesRemoteBranch, "")

\* Line 230.
SubLfsFetch ==
  /\ pc = "subLfsFetch"
  /\ \E ok \in BOOLEAN :
       Step([Rec("lfsFetch", ok) EXCEPT
               !.who = subIdx, !.ref = LfsFetchRef(SubCheckoutInfo)],
            ok, "subCheckout")
  /\ UNCHANGED <<settings, input, entry, fsVars, isExisting, git, authVars, repoVars,
                 checkoutInfo, loopVars>>

\* Line 233.
SubCheckout ==
  /\ pc = "subCheckout"
  /\ \E ok \in BOOLEAN :
       LET next == LoopStep(subIdx, subs) IN
       /\ Step([Rec("checkout", ok) EXCEPT
                  !.who = subIdx, !.ref = SubCheckoutInfo.ref,
                  !.spec = SubCheckoutInfo.startPoint],
               ok, next)
       /\ EndIteration(ok, next)
  /\ UNCHANGED <<settings, input, entry, fsVars, isExisting, git, authVars, repoVars,
                 checkoutInfo>>

\* Lines 238-241: the inner finally.  With an exception in flight it is
\* rethrown once removeGlobalAuth returns; one thrown here replaces it.  A
\* removeGlobalAuth that throws may have left the configuration in place.
RemoveGlobalAuth ==
  /\ pc = "removeGlobalAuth"
  /\ \E ok \in BOOLEAN :
       /\ Step(Rec("removeGlobalAuth", ok), ok,
               IF err = "none" THEN "log1" ELSE FinallyAuth(settings))
       /\ globalAuth' \in (IF ok THEN {FALSE} ELSE {globalAuth, FALSE})
  /\ UNCHANGED <<settings, input, entry, fsVars, isExisting, git, localAuth, subAuth,
                 repoVars, checkoutInfo, loopVars>>

\* ----------------------------------------------- validation and teardown
\* Line 245.
Log1 ==
  /\ pc = "log1"
  /\ \E ok \in BOOLEAN : Step(Rec("log1", ok), ok, "log1Sha")
  /\ UNCHANGED <<settings, input, entry, fsVars, isExisting, git, authVars, repoVars,
                 checkoutInfo, loopVars>>

\* Line 248.
Log1Sha ==
  /\ pc = "log1Sha"
  /\ \E ok \in BOOLEAN :
       Step([Rec("log1", ok) EXCEPT !.spec = "--format='%H'"],
            ok, "checkCommitInfo")
  /\ UNCHANGED <<settings, input, entry, fsVars, isExisting, git, authVars, repoVars,
                 checkoutInfo, loopVars>>

\* Lines 251-258; then the outer finally.
CheckCommitInfo ==
  /\ pc = "checkCommitInfo"
  /\ \E ok \in BOOLEAN :
       Step([Rec("checkCommitInfo", ok) EXCEPT
               !.ref = settings.ref, !.commit = settings.commit],
            ok, FinallyAuth(settings))
  /\ UNCHANGED <<settings, input, entry, fsVars, isExisting, git, authVars, repoVars,
                 checkoutInfo, loopVars>>

\* Lines 259-266: the outer finally when persistCredentials is false.  An
\* exception thrown here replaces the one in flight.  A removeAuth that
\* throws may have left the configuration in place.
RemoveAuth ==
  /\ pc = "removeAuth"
  /\ \E ok \in BOOLEAN :
       /\ Step(Rec("removeAuth", ok), ok, "done")
       /\ localAuth' \in (IF ok THEN {FALSE} ELSE {localAuth, FALSE})
  /\ UNCHANGED <<settings, input, entry, fsVars, isExisting, git, globalAuth, subAuth,
                 repoVars, checkoutInfo, loopVars>>

\* ---------------------------------------------------------------- cleanup
\* Lines 278-283 of cleanup: a client that cannot be constructed is not an
\* error.
CleanupGetGit ==
  /\ pc = "cleanupGit"
  /\ \E constructed \in BOOLEAN :
       /\ calls' = Append(calls, [Rec("createCommandManager", TRUE) EXCEPT
                                    !.ret = constructed])
       /\ pc' = IF constructed THEN "cleanupRemoveAuth" ELSE "cleanupDone"
       /\ git' = IF constructed THEN "git" ELSE git
  /\ UNCHANGED <<settings, input, entry, fsVars, isExisting, err, authVars,
                 repoVars, checkoutInfo, loopVars>>

\* Lines 285-287 of cleanup.  A removeAuth that throws may have left the
\* configuration in place.
CleanupRemoveAuth ==
  /\ pc = "cleanupRemoveAuth"
  /\ \E ok \in BOOLEAN :
       /\ calls' = Append(calls, Rec("removeAuth", ok))
       /\ err' = IF ok THEN err ELSE "removeAuth"
       /\ localAuth' \in (IF ok THEN {FALSE} ELSE {localAuth, FALSE})
  /\ pc' = "cleanupDone"
  /\ UNCHANGED <<settings, input, entry, fsVars, isExisting, git, globalAuth,
                 subAuth, repoVars, checkoutInfo, loopVars>>

\* ------------------------------------------------------------------ Next
Next ==
  \/ RmRF \/ MkdirP \/ GetGit \/ PrepareExistingDirectory \/ CheckClient
  \/ DownloadRepository
  \/ GitInit \/ RemoteAdd \/ TryDisableAutomaticGarbageCollection
  \/ ConfigureAuth \/ RemoteBranchExistsCall \/ GetDefaultBranch
  \/ LfsInstall \/ Fetch \/ TestRefCall \/ CorrectiveFetch \/ RemotePush
  \/ GetCheckoutInfoCall \/ LfsFetch \/ Checkout
  \/ ConfigureGlobalAuth \/ SubmoduleSync \/ SubmoduleUpdate
  \/ SubmoduleForeach \/ ConfigureSubmoduleAuth \/ GetSubmodulesList
  \/ SubGetGit \/ SubRemoteBranchExists \/ SubLfsInstall \/ SubFetch
  \/ SubGetCheckoutInfo \/ SubLfsFetch \/ SubCheckout \/ RemoveGlobalAuth
  \/ Log1 \/ Log1Sha \/ CheckCommitInfo \/ RemoveAuth
  \/ CleanupGetGit \/ CleanupRemoveAuth

Spec == Init /\ [][Next]_vars

\* cleanup has returned or thrown.
CleanupDone == pc = "cleanupDone"

\* getSource has returned or thrown.
Done == pc = "done"
Returned == Done /\ err = "none"
Threw == Done /\ err # "none"

\* ======================================================================
\* Claims
\* ======================================================================
Teardown == {"removeGlobalAuth", "removeAuth"}

\* The calls that threw in the body of getSource (teardown calls excluded).
BodyFailures == {i \in 1..Len(calls) :
                   ~calls[i].ok /\ calls[i].op \notin Teardown}
TeardownFailures == {i \in 1..Len(calls) :
                       ~calls[i].ok /\ calls[i].op \in Teardown}

\* The operations of the native-client acquisition.
NativeOps ==
  {"init", "remoteAdd", "configureAuth", "fetch", "checkout",
   "submoduleSync", "submoduleUpdate", "submoduleForeach",
   "getSubmodulesList", "configureGlobalAuth", "configureSubmoduleAuth"}

\* getSource went past the client check with a client (line 78 on).
EnteredNativeBranch == "setRepositoryPath" \in Ops(calls)

C2_RemoveAuthOnEveryExit_AsClaimed ==
  /\ (Done /\ EnteredNativeBranch /\ ~input.persistCredentials)
       => "removeAuth" \in Ops(calls)
  /\ input.persistCredentials => "removeAuth" \notin Ops(calls)

\* C2 as amended: with persistCredentials=false, removeAuth is invoked, once
\* and as the last call, on every exit from the try block that starts at
\* configureAuth (success, or the failure of any step from configureAuth to
\* commit validation); when git.init or git.remoteAdd throws, getSource
\* throws that error without invoking removeAuth; with
\* persistCredentials=true removeAuth is never invoked.
C2_RemoveAuthOnEveryExit ==
  /\ (Done /\ ~input.persistCredentials /\ "configureAuth" \in Ops(calls))
       => /\ Cardinality(Idx(calls, "removeAuth")) = 1
          /\ calls[Len(calls)].op = "removeAuth"
  /\ (Done /\ EnteredNativeBranch /\ "configureAuth" \notin Ops(calls))
       => /\ "removeAuth" \notin Ops(calls)
          /\ err \in {"init", "remoteAdd"}
  /\ input.persistCredentials => "removeAuth" \notin Ops(calls)

\* The fetch threw and removeAuth ran before getSource threw.
C2_Witness ==
  /\ Done /\ ~input.persistCredentials
  /\ err = "fetch"
  /\ calls[Len(calls)].op = "removeAuth"

\* C3: when a call in the body of getSource throws and a teardown call made
\* on the way out throws too, getSource throws the body's error; a teardown
\* failure with no earlier error is thrown to the caller.
C3_TeardownDoesNotMask ==
  Done =>
    /\ \A i \in BodyFailures : err = calls[i].op
    /\ (BodyFailures = {} /\ TeardownFailures # {}) => err \in Teardown

\* C4: a getSource call never uses both acquisition methods: the archive
\* download and a native-client operation are never both invoked.
C4_OneAcquisitionMethod ==
  ~("downloadRepository" \in Ops(calls) /\ Ops(calls) \cap NativeOps # {})

\* The archive was downloaded and getSource returned.
C4_Witness ==
  Returned /\ "downloadRepository" \in Ops(calls) /\ git = "none"

\* createCommandManager failed for the repository path.
ConstructionFailed ==
  \E i \in TopIdx(calls, "createCommandManager") : ~calls[i].ret

\* C5 as claimed: when client construction fails (and preparing the existing
\* directory does not throw), with lfs=false the archive download is always
\* performed, with lfs=true getSource throws the construction error and
\* never downloads.
C5_FallbackSelection_AsClaimed ==
  (Done /\ ConstructionFailed /\ err # "prepareExistingDirectory") =>
    IF ~input.lfs
    THEN "downloadRepository" \in Ops(calls)
    ELSE err = "createCommandManager"
         /\ "downloadRepository" \notin Ops(calls)

\* C5 as amended: when client construction fails, with lfs=false getSource
\* never uses the native client, and it performs the archive download
\* unless prepareExistingDirectory throws or it throws the configuration
\* error for submodules or sshKey; with lfs=true it throws the construction
\* error at once and never downloads.
C5_FallbackSelection ==
  (Done /\ ConstructionFailed) =>
    IF ~input.lfs
    THEN /\ Ops(calls) \cap NativeOps = {}
         /\ "downloadRepository" \in Ops(calls)
              <=> /\ err # "prepareExistingDirectory"
                  /\ ~input.submodules /\ ~input.sshKey
    ELSE /\ err = "createCommandManager"
         /\ calls[Len(calls)].op = "createCommandManager"
         /\ "downloadRepository" \notin Ops(calls)

\* Construction failed without lfs and the archive was downloaded.
C5_Witness ==
  /\ Done /\ ConstructionFailed /\ ~input.lfs
  /\ "downloadRepository" \in Ops(calls)

\* The calls that go to the network.
NetworkOps == {"downloadRepository", "getDefaultBranch", "fetch"}

\* C6: when getSource finds no native client (line 50) and submodules or
\* sshKey is set, it throws the configuration error, and no download,
\* default-branch lookup or fetch has been invoked in that call.
C6_FallbackConfigurationError ==
  (Done /\ git = "none" /\ err # "prepareExistingDirectory"
        /\ (input.submodules \/ input.sshKey))
    => /\ err = IF input.submodules THEN "submodulesNotSupported"
                ELSE "sshKeyNotSupported"
       /\ Ops(calls) \cap NetworkOps = {}

\* No client, sshKey set without submodules: the ssh-key error was thrown.
C6_Witness ==
  /\ Done /\ git = "none" /\ input.sshKey /\ ~input.submodules
  /\ err = "sshKeyNotSupported"
  /\ Ops(calls) \cap NetworkOps = {}

\* The top-level client's fetches and verifications, in call order.
TopFetches == TopIdx(calls, "fetch")
TopTestRefs == TopIdx(calls, "testRef")
Min(S) == CHOOSE x \in S : \A y \in S : x <= y
Max(S) == CHOOSE x \in S : \A y \in S : x >= y

\* C7: with fetchDepth <= 0 the top-level client first fetches all history
\* with no depth; a corrective fetch with the targeted refspec is issued
\* exactly when testRef returned false, right after it, and never when it
\* returned true; there are never more than two fetches; and a checkout
\* checks out what the last fetch brought.
C7_FullHistoryFetch ==
  input.fetchDepth <= 0 =>
    /\ Cardinality(TopFetches) <= 2
    /\ Cardinality(TopTestRefs) <= 1
    /\ TopFetches # {} =>
         /\ calls[Min(TopFetches)].spec = "all"
         /\ calls[Min(TopFetches)].depth = {}
    /\ \A i \in TopFetches :
         i # Min(TopFetches) =>
         /\ calls[i].spec = "targeted" /\ calls[i].depth = {}
         /\ calls[i].ref = settings.ref /\ calls[i].commit = settings.commit
         /\ calls[i - 1].op = "testRef"
         /\ calls[i - 1].ok /\ ~calls[i - 1].ret
    /\ \A t \in TopTestRefs :
         /\ calls[t - 1].op = "fetch" /\ calls[t - 1].ok
         /\ (calls[t].ok /\ calls[t].ret) => Cardinality(TopFetches) = 1
         /\ (calls[t].ok /\ ~calls[t].ret /\ Len(calls) > t)
              => calls[t + 1].op = "fetch"
         /\ ~calls[t].ret => pushes > 0
    /\ \A c \in TopIdx(calls, "checkout") :
         calls[c].ok =>
           /\ TopFetches # {} /\ Max(TopFetches) < c
           /\ calls[Max(TopFetches)].ok
           /\ calls[c].tip = calls[Max(TopFetches)].tip

\* The ref moved after the first fetch, testRef returned false, the
\* corrective fetch brought the new commit and it was checked out.
C7_Witness ==
  /\ input.fetchDepth <= 0
  /\ Cardinality(TopFetches) = 2
  /\ \E t \in TopTestRefs : calls[t].ok /\ ~calls[t].ret
  /\ \E c \in TopIdx(calls, "checkout") :
       calls[c].ok /\ calls[c].tip = remoteTip
                   /\ calls[c].tip # calls[Min(TopFetches)].tip

\* C8: with fetchDepth > 0 the top-level client fetches at most once, and
\* exactly once when getSource gets past the fetch step, with the targeted
\* refspec for the resolved ref and the commit and with depth
\* settings.fetchDepth; testRef is never invoked.
C8_ShallowFetch ==
  input.fetchDepth > 0 =>
    /\ Cardinality(TopFetches) <= 1
    /\ TopTestRefs = {}
    /\ \A i \in TopFetches :
         /\ calls[i].spec = "targeted"
         /\ calls[i].depth = {input.fetchDepth}
         /\ calls[i].ref = settings.ref /\ calls[i].commit = input.commit
    /\ TopIdx(calls, "getCheckoutInfo") # {} =>
         /\ Cardinality(TopFetches) = 1
         /\ calls[Max(TopFetches)].ok

\* A shallow fetch succeeded and getSource returned.
C8_Witness ==
  /\ Returned /\ input.fetchDepth > 0
  /\ Cardinality(TopFetches) = 1
  /\ "checkout" \in Ops(calls)

\* C9: when a non-empty ref that is not a remote branch (a tag or a SHA) is
\* requested, the fetch, getCheckoutInfo and checkout of the top-level
\* client use the requested ref, not the default branch.
C9_RequestedRefKept ==
  (input.ref # "" /\ ~RemoteBranchExists(input.ref)) =>
    /\ \A i \in TopFetches \cup TopIdx(calls, "getCheckoutInfo") :
         calls[i].ref = input.ref
    /\ \A i \in TopIdx(calls, "checkout") :
         input.commit = "" => calls[i].ref = input.ref

\* The default-branch lookups made so far.
Lookups == Idx(calls, "getDefaultBranch")

\* C10: with ref and commit empty and a native client, the default branch
\* is looked up at most once, and exactly once before any fetch, through
\* the client when sshKey is set and through the API otherwise, after
\* configureAuth succeeded; the fetch, getCheckoutInfo and checkCommitInfo
\* that follow are given the value it returned.
C10_DefaultBranchResolved ==
  (input.ref = "" /\ input.commit = "") =>
    /\ Cardinality(Lookups) <= 1
    /\ \A d \in Lookups :
         /\ calls[d].spec = IF input.sshKey THEN "git" ELSE "api"
         /\ calls[d - 1].op = "configureAuth" /\ calls[d - 1].ok
         /\ \A f \in TopFetches : d < f
    /\ \A i \in TopFetches \cup TopIdx(calls, "getCheckoutInfo")
                \cup Idx(calls, "checkCommitInfo") :
         /\ Cardinality(Lookups) = 1
         /\ calls[Max(Lookups)].ok /\ Max(Lookups) < i
         /\ calls[i].ref = calls[Max(Lookups)].ref
         /\ calls[i].ref \in DefaultBranches

\* With an SSH key the client resolved the default branch and getSource
\* returned after validating the commit against it.
C10_Witness ==
  /\ Returned /\ input.ref = "" /\ input.commit = "" /\ input.sshKey
  /\ \E d \in Lookups : calls[d].spec = "git" /\ calls[d].ok
  /\ "checkCommitInfo" \in Ops(calls)

\* C11: every checkCommitInfo reached with a non-empty requested ref is
\* passed the ref the caller requested, and the requested commit.
C11_ValidationUsesRequestedRef ==
  input.ref # "" =>
    \A i \in Idx(calls, "checkCommitInfo") :
      calls[i].ref = input.ref /\ calls[i].commit = input.commit

\* The calls of the submodule block on the top-level client and the auth
\* helper; the calls on a submodule's client carry who > 0.
SubmoduleOps ==
  {"configureGlobalAuth", "submoduleSync", "submoduleUpdate",
   "submoduleForeach", "configureSubmoduleAuth", "getSubmodulesList",
   "removeGlobalAuth"}
SubmoduleCalls ==
  {i \in 1..Len(calls) : calls[i].op \in SubmoduleOps \/ calls[i].who > 0}

\* C12: with submodules=false getSource makes no submodule-related call,
\* whatever submodulesRemoteBranch, nestedSubmodules, persistCredentials
\* and lfs are: none of the submodule calls of the client, none of the
\* global or submodule auth calls, no client for a submodule path.
C12_NoSubmoduleCalls ==
  (entry.fn = "getSource" /\ ~input.submodules) =>
    /\ SubmoduleCalls = {}
    /\ pc \notin SubmoduleTry \cup {"removeGlobalAuth"}
    /\ ~globalAuth /\ ~subAuth

\* getSource returned after a checkout with submodules=false although a
\* submodule branch, nested submodules, persistence and lfs were all set.
C12_Witness ==
  /\ Returned /\ ~input.submodules
  /\ input.submodulesRemoteBranch # "" /\ input.nestedSubmodules
  /\ input.persistCredentials /\ input.lfs
  /\ \E i \in TopIdx(calls, "checkout") : calls[i].ok
  /\ "checkCommitInfo" \in Ops(calls)

\* The calls that update a submodule through its own client (lines 213-233).
SubUpdateOps == {"lfsInstall", "fetch", "getCheckoutInfo", "lfsFetch", "checkout"}

\* The answers of remoteBranchExists on the submodules' clients so far.
SubBranchAnswers ==
  {k \in Idx(calls, "remoteBranchExists") : calls[k].who > 0 /\ calls[k].ok}

\* The length of the list the last getSubmodulesList returned.
ListLength == calls[Max(Idx(calls, "getSubmodulesList"))].tip

\* C13: with submodules and submodulesRemoteBranch set, a submodule whose
\* remote lacks the branch gets no lfsInstall, fetch, getCheckoutInfo,
\* lfsFetch or checkout on its client and the loop goes on with the next
\* submodule of the list; a submodule whose remote has the branch is
\* checked out to it wherever it stands in the list, unless one of the
\* calls on its own client throws.
C13_SubmoduleWithoutBranchSkipped ==
  (input.submodules /\ input.submodulesRemoteBranch # "") =>
    \A k \in SubBranchAnswers :
      LET i == calls[k].who
          after == {j \in (k + 1)..Len(calls) : calls[j].who = i}
      IN
      /\ calls[k].ref = input.submodulesRemoteBranch
      /\ ~calls[k].ret =>
           /\ \A j \in 1..Len(calls) :
                calls[j].who = i => calls[j].op \notin SubUpdateOps
           /\ i < ListLength =>
                IF k = Len(calls)
                THEN pc = "subGetGit" /\ subIdx = i + 1
                ELSE /\ calls[k + 1].op = "createCommandManager"
                     /\ calls[k + 1].who = i + 1
      /\ calls[k].ret =>
           \/ \E j \in after :
                /\ calls[j].op = "checkout" /\ calls[j].ok
                /\ calls[j].ref = input.submodulesRemoteBranch
           \/ \E j \in after : ~calls[j].ok
           \/ /\ subIdx = i
              /\ pc \in {"subLfsInstall", "subFetch", "subGetCheckoutInfo",
                         "subLfsFetch", "subCheckout"}

\* getSource returned after a list of two submodules of which the first
\* lacks the branch and the second was checked out to it.
C13_Witness ==
  /\ Returned /\ input.submodules /\ input.submodulesRemoteBranch # ""
  /\ \E k \in SubBranchAnswers : calls[k].who = 1 /\ ~calls[k].ret
  /\ \E j \in Idx(calls, "checkout") :
       /\ calls[j].who = 2 /\ calls[j].ok
       /\ calls[j].ref = input.submodulesRemoteBranch

\* C14: in the override loop a client that cannot be constructed for one
\* submodule's path does not throw in getSource, for every value of lfs:
\* that submodule is skipped and the loop goes on with the next one or ends.
C14_SubmoduleClientFailureNonFatal ==
  \A k \in Idx(calls, "createCommandManager") :
    (calls[k].who > 0 /\ ~calls[k].ret) =>
      /\ calls[k].ok
      /\ IF k = Len(calls)
         THEN pc = LoopStep(calls[k].who, ListLength)
         ELSE calls[k + 1].op \in {"createCommandManager", "removeGlobalAuth"}
      /\ \A j \in 1..Len(calls) :
           calls[j].who = calls[k].who => calls[j].op = "createCommandManager"

GlobalAuthSet == Idx(calls, "configureGlobalAuth")
GlobalAuthRemoved == Idx(calls, "removeGlobalAuth")

\* The submodule block (lines 172-242) has been entered and left.
SubmoduleBlockLeft ==
  GlobalAuthSet # {} /\ pc \notin SubmoduleTry \cup {"removeGlobalAuth"}

\* C15: every submodule call lies after the one configureGlobalAuth, which
\* returned, and before removeGlobalAuth; once the submodule block has been
\* left, whether at its end, through a failed step or through a failed
\* configureGlobalAuth, removeGlobalAuth has been called exactly once; and
\* removeGlobalAuth precedes removeAuth.
C15_GlobalAuthScope ==
  LET set == GlobalAuthSet
      removed == GlobalAuthRemoved
  IN
  /\ Cardinality(set) <= 1 /\ Cardinality(removed) <= 1
  /\ \A i \in 1..Len(calls) :
       ((calls[i].op \in SubmoduleOps \/ calls[i].who > 0)
          /\ i \notin set /\ i \notin removed) =>
         /\ \E g \in set : g < i /\ calls[g].ok
         /\ \A r \in removed : i < r
  /\ \A r \in removed : \E g \in set : g < r
  /\ SubmoduleBlockLeft => Cardinality(removed) = 1
  /\ pc \in SubmoduleTry \ {"configureGlobalAuth"} =>
       set # {} /\ removed = {}
  /\ \A r \in removed, a \in Idx(calls, "removeAuth") : r < a

\* configureGlobalAuth itself threw, removeGlobalAuth and then removeAuth
\* were called, and getSource threw.
C15_Witness ==
  /\ Threw
  /\ \E g \in GlobalAuthSet, r \in GlobalAuthRemoved,
        a \in Idx(calls, "removeAuth") :
       ~calls[g].ok /\ r = g + 1 /\ a = r + 1

\* The fetches that threw, on the repository's client or a submodule's.
FailedFetches == {i \in Idx(calls, "fetch") : ~calls[i].ok}

\* C16: a fetch that throws, be it the all-history fetch, the corrective
\* fetch, the shallow fetch or a submodule's, is followed by credential
\* teardown calls only: no further fetch, no getCheckoutInfo, lfsFetch,
\* checkout, submodule call, log1 or checkCommitInfo; control is in the
\* finally blocks and getSource ends by throwing.
C16_FetchFailureFatal ==
  \A i \in FailedFetches :
    /\ \A j \in (i + 1)..Len(calls) : calls[j].op \in Teardown
    /\ pc \in {"removeGlobalAuth", "removeAuth", "done"}
    /\ err # "none"
    /\ Done => Threw

\* The corrective fetch threw; removeAuth followed and getSource threw.
C16_Witness ==
  /\ Threw
  /\ \E i \in FailedFetches :
       /\ i = Max(TopFetches) /\ Cardinality(TopFetches) = 2
       /\ i < Len(calls)

\* C17: with persistCredentials=false configureSubmoduleAuth is never
\* called and nothing is written into the submodules' own configuration,
\* also when submodules and submodulesRemoteBranch are set.
C17_SubmoduleAuthOnlyWhenPersisting ==
  ~input.persistCredentials =>
    /\ "configureSubmoduleAuth" \notin Ops(calls)
    /\ ~subAuth

\* The place of a call among the steps of the native-client path; 0 for
\* the calls made before the repository is initialized.
StepRank(c) ==
  IF c.who > 0 \/ c.op \in SubmoduleOps THEN 12
  ELSE CASE c.op = "init" -> 1
         [] c.op = "remoteAdd" -> 2
         [] c.op = "tryDisableAutomaticGarbageCollection" -> 3
         [] c.op = "configureAuth" -> 4
         [] c.op = "remoteBranchExists" -> 5
         [] c.op = "getDefaultBranch" -> 6
         [] c.op = "lfsInstall" -> 7
         [] c.op \in {"fetch", "testRef"} -> 8
         [] c.op = "getCheckoutInfo" -> 9
         [] c.op = "lfsFetch" -> 10
         [] c.op = "checkout" -> 11
         [] c.op = "log1" -> 13
         [] c.op = "checkCommitInfo" -> 14
         [] c.op = "removeAuth" -> 15
         [] OTHER -> 0

\* The steps made of several calls: directory and client, fetch with
\* testRef, submodule handling, log1.
RepeatedSteps == {0, 8, 12, 13}

\* The steps every run of the native-client path goes through, in order.
MandatorySteps(s) ==
  <<"configureAuth">>
  \o (IF s.lfs THEN <<"lfsInstall">> ELSE <<>>)
  \o <<"fetch", "getCheckoutInfo">>
  \o (IF s.lfs THEN <<"lfsFetch">> ELSE <<>>)
  \o <<"checkout">>
  \o (IF s.submodules THEN <<"configureGlobalAuth", "removeGlobalAuth">>
      ELSE <<>>)
  \o <<"log1", "checkCommitInfo">>

\* The calls made so far on the repository's client and the helpers.
TopOps == {calls[i].op : i \in {j \in 1..Len(calls) : calls[j].who = 0}}

\* The calls are in the order of the steps, a step of one call is made at
\* most once, each mandatory step that was made was preceded by the one
\* before it, the optional steps were made only when asked for, and init
\* only without a .git directory.
StepsInOrder ==
  LET ops == TopOps
      steps == MandatorySteps(input)
  IN
  /\ \A j \in 2..Len(calls) :
       LET a == StepRank(calls[j - 1])
           b == StepRank(calls[j])
       IN a < b \/ (a = b /\ a \in RepeatedSteps)
  /\ \A p \in 2..Len(steps) : steps[p] \in ops => steps[p - 1] \in ops
  /\ ops \cap {"remoteBranchExists", "getDefaultBranch"} # {}
       => "configureAuth" \in ops
  /\ "remoteAdd" \in ops => "init" \in ops
  /\ "configureAuth" \in ops
       => "tryDisableAutomaticGarbageCollection" \in ops
  /\ pc = "init" => ~gitDir
  /\ (pc = "gc" /\ "init" \notin ops) => gitDir
  /\ ops \cap {"lfsInstall", "lfsFetch"} # {} => input.lfs
  /\ (ops \cap SubmoduleOps # {} \/ subIdx > 0) => input.submodules

\* C18 as claimed: on the native-client path the calls are in the order of
\* the steps and no step, removeAuth included, is entered unless every
\* earlier step succeeded.
C18_StepOrder_AsClaimed ==
  /\ StepsInOrder
  /\ \A j \in 1..Len(calls) :
       StepRank(calls[j]) > 0 => \A i \in 1..(j - 1) : calls[i].ok

\* C18: on the native-client path the calls are in the order of the steps
\* init/remoteAdd (only without a .git directory), configureAuth,
\* default-branch resolution, lfsInstall (iff lfs), fetch, getCheckoutInfo,
\* lfsFetch (iff lfs), checkout, submodule handling (iff submodules), log1
\* and checkCommitInfo, removeAuth; and no step other than the credential
\* teardown (removeGlobalAuth, removeAuth) is entered unless every earlier
\* step succeeded.
C18_StepOrder ==
  /\ StepsInOrder
  /\ \A i \in BodyFailures \cup TeardownFailures :
       \A j \in (i + 1)..Len(calls) : calls[j].op \in Teardown

\* getSource went through every step, the optional ones included, starting
\* without a .git directory, and returned.
C18_Witness ==
  /\ Returned /\ input.lfs /\ input.submodules /\ ~input.persistCredentials
  /\ {"init", "remoteAdd", "getDefaultBranch", "lfsInstall", "lfsFetch",
      "configureGlobalAuth", "checkCommitInfo", "removeAuth"} \subseteq Ops(calls)

\* The calls that resolve the repository's client and prepare the directory.
Resolved == TopIdx(calls, "createCommandManager")
Prepared == Idx(calls, "prepareExistingDirectory")

\* C19: in getSource rmRF is called iff a regular file was at
\* repositoryPath and removes it; mkdirP is called iff no directory is
\* there at that point; prepareExistingDirectory is called iff a directory
\* was there before the call, with or without a native client, right after
\* the client is resolved and before any init, fetch or download.
C19_DirectoryPreparation ==
  entry.fn = "getSource" =>
    /\ calls # <<>> => (calls[1].op = "rmRF" <=> entry.pathKind = "file")
    /\ Idx(calls, "rmRF") \subseteq {1}
    /\ (calls # <<>> /\ calls[1].op = "rmRF" /\ calls[1].ok) =>
         pathKind # "file"
    /\ \A m \in Idx(calls, "mkdirP") :
         /\ entry.pathKind # "dir"
         /\ m = IF entry.pathKind = "file" THEN 2 ELSE 1
         /\ calls[m].ok => pathKind = "dir"
    /\ \A g \in Resolved :
         /\ pathKind = "dir"
         /\ "mkdirP" \in Ops(calls) <=> entry.pathKind # "dir"
         /\ isExisting <=> entry.pathKind = "dir"
         /\ \A j \in 1..(g - 1) : calls[j].op \in {"rmRF", "mkdirP"}
         /\ (calls[g].ok /\ entry.pathKind = "dir") =>
              IF g = Len(calls) THEN pc = "prepare"
              ELSE calls[g + 1].op = "prepareExistingDirectory"
    /\ \A p \in Prepared :
         /\ entry.pathKind = "dir"
         /\ p = 2 /\ p - 1 \in Resolved
         /\ Cardinality(Prepared) = 1
    /\ pc = "prepare" => entry.pathKind = "dir"

\* Without a native client the directory that existed before the call was
\* prepared and the archive was then downloaded.
C19_Witness ==
  /\ Returned /\ entry.fn = "getSource" /\ entry.pathKind = "dir"
  /\ \E g \in Resolved, p \in Prepared, d \in Idx(calls, "downloadRepository") :
       ~calls[g].ret /\ g < p /\ p < d /\ calls[p].ok

\* The removeAuth calls made so far.
AuthRemovals == Idx(calls, "removeAuth")

\* C20: cleanup calls removeAuth exactly once iff the path is not empty,
\* the file .git/config exists and a client can be constructed for the
\* path; otherwise it returns without calling removeAuth and without
\* throwing.  It makes no other call than the construction of the client
\* and leaves the directory and every other configuration as they were.
C20_Cleanup ==
  entry.fn = "cleanup" =>
    /\ Ops(calls) \subseteq {"createCommandManager", "removeAuth"}
    /\ Cardinality(Resolved) <= 1 /\ Cardinality(AuthRemovals) <= 1
    /\ \A g \in Resolved :
         g = 1 /\ entry.repositoryPath # "" /\ entry.gitConfig
    /\ \A a \in AuthRemovals : a = 2 /\ calls[1].ret
    /\ CleanupDone =>
         /\ Cardinality(AuthRemovals) = 1 <=>
              /\ entry.repositoryPath # "" /\ entry.gitConfig
              /\ \E g \in Resolved : calls[g].ret
         /\ AuthRemovals = {} => err = "none"
    /\ AuthRemovals = {} => localAuth = entry.localAuth
    /\ pathKind = entry.pathKind /\ gitDir = entry.gitDir
    /\ gitConfig = entry.gitConfig
    /\ ~globalAuth /\ ~subAuth /\ settings = input
    /\ fetchedTip = 0 /\ workTip = 0

\* cleanup found the config file, constructed a client and removed the
\* credentials with one removeAuth call.
C20_Witness ==
  /\ CleanupDone /\ entry.fn = "cleanup"
  /\ Cardinality(AuthRemovals) = 1
  /\ \A a \in AuthRemovals : calls[a].ok
  /\ entry.localAuth /\ ~localAuth /\ err = "none"

====
